---- MODULE Spec2Model ----
(***************************************************************************)
(* State-machine model of the gorote message engine (src/rabbitmq.go):     *)
(*   - ConnRabbitMQ: Connect / connect / Close / Reconnect,                *)
(*     ConsumerMessages with its worker goroutines, PublishStruct;         *)
(*   - ConnSQS.ConsumerMessages with its worker goroutines.                *)
(* One goroutine step is one action.  A run exercises one entry point,     *)
(* chosen in Init by app: "consume" (Connect then ConsumerMessages),       *)
(* "publish" (Connect then PublishStruct) or "sqs".                        *)
(* SpecShared runs one connection shared by the consumer loop, a           *)
(* publisher goroutine and an application goroutine that calls Close.      *)
(* The pure function Redelivery has a specification of its own,            *)
(* SpecRedelivery, which applies it to one header value per run.           *)
(***************************************************************************)
EXTENDS Integers, Sequences, FiniteSets

\* ---------------------------------------------------------------- bounds
MaxMsgs == 2          \* deliveries the broker / queue hands out in a run
MaxWorkers == 2       \* largest worker count N tried
MaxErrHandlers == 2   \* longest errHandlers chain tried
MaxDials == 2         \* amqp.Dial calls a run may start
MaxPoolWork == 6      \* largest worker * len(errHandlers) tried
MaxCount == 12        \* Redelivery: largest |n| of the small header numbers tried
MaxStrLen == 3        \* Redelivery: longest free-form header string tried

\* ----------------------------------------------------- program constants
MaxReconnectAttempts == 5   \* for i := 1; i <= 5; i++
MaxNumberOfMessages == 10   \* sqs.ReceiveMessageInput.MaxNumberOfMessages
SqsMaxWorkers == 10         \* worker > 10 is rejected
NackRequeue == TRUE         \* msg.Nack(false, true): requeue argument

Apps == {"consume", "publish", "sqs"}
Procs == {"consumer", "publisher", "watcher", "closer", "sqs"}
Msgs == 1..MaxMsgs
DialIds == 1..MaxDials

VARIABLES
  app,          \* entry point exercised by the run
  worker,       \* argument worker
  nErr,         \* len(errHandlers)
  serializable, \* whether json.Marshal(data) succeeds
  hdr,          \* Redelivery: b.Headers["x-delivery-count"]
  retry,        \* Redelivery: <<>> before the call, <<returned value>> after
  ctxDone,      \* ctx.Done() is closed
  mu,           \* r.mu: "none" or the goroutine holding it
  rConn,        \* r.Connection: 0 = nil, else the id of the dial that opened it
  rChan,        \* r.Channel: 0 = nil, else the id of its connection
  conn,         \* transport connection opened by dial d: "none"/"open"/"closed"
  chan,         \* channel opened on connection d: "none"/"open"/"closed"
  dial,         \* dial goroutine d: "idle"/"pending"/"ok"/"err"
  nextDial,     \* id of the next dial goroutine
  pc,           \* position of each goroutine
  ret,          \* caller of connect: "Connect" or "Reconnect"
  myDial,       \* dial goroutine started by the connect call of p
  rcI,          \* loop variable i of Reconnect
  stream,       \* msgs: "none" (no subscription) / "open" / "closed"
  subs,         \* successful ConsumeWithContext calls so far
  nextMsg,      \* next delivery the broker / queue hands out
  cur,          \* delivery d received by the loop, waiting for a slot
  batch,        \* SQS: resp.Messages still to iterate
  sem,          \* len(sem)
  wg,           \* WaitGroup counter
  wst,          \* worker goroutine of each delivery
  ehI,          \* index of the next error-handler of each worker
  log,          \* per delivery: the calls made by the body of its worker, in order
  result,       \* value returned by the entry point of each goroutine
  sends,        \* PublishWithContext calls made by PublishStruct
  sendFailed,   \* err != nil after the first PublishWithContext
  reconnCalls,  \* Reconnect calls started by each goroutine
  kAtCancel,    \* workers in flight when ctx was cancelled (-1: not cancelled)
  subsAtCancel, \* value of subs when ctx was cancelled (-1: not cancelled)
  lateAdmit,    \* a worker was started after ctx was cancelled
  retCtx        \* ctx was already cancelled when the entry point returned

vars == <<app, worker, nErr, serializable, hdr, retry, ctxDone, mu, rConn, rChan,
          conn, chan,
          dial, nextDial, pc, ret, myDial, rcI, stream, subs, nextMsg, cur, batch,
          sem, wg, wst, ehI, log, result, sends, sendFailed, reconnCalls,
          kAtCancel, subsAtCancel, lateAdmit, retCtx>>

connVars == <<mu, rConn, rChan, conn, chan, dial, nextDial, ret, myDial, rcI>>
poolVars == <<sem, wg, wst, ehI, log>>
loopVars == <<stream, subs, nextMsg, cur, batch>>
pubVars  == <<sends, sendFailed>>
histVars == <<kAtCancel, subsAtCancel, lateAdmit, retCtx>>
cfgVars  == <<app, worker, nErr, serializable, hdr, retry>>

\* ------------------------------------------------------------- helpers
Ev(op, i, ok) == [op |-> op, i |-> i, ok |-> ok]

Caller == CASE app = "consume" -> "consumer"
            [] app = "publish" -> "publisher"
            [] app = "sqs" -> "sqs"
            [] app = "shared" -> "consumer"
            [] OTHER -> "none"

\* Workers admitted and not yet finished (between go func and wg.Done).
Admitted == {m \in Msgs : wst[m] \notin {"none", "done"}}
\* Workers whose handler / ack / error-handler code is still running.
Running == {m \in Msgs : wst[m] \notin {"none", "release", "wgdone", "done"}}

Min(a, b) == IF a < b THEN a ELSE b

\* A header value: its Go type (kind), its numeric value n or its text s.
Header(k, n, t) == [kind |-> k, n |-> n, s |-> t]

\* The state after construction, for the entry point chosen by app.
InitProgram ==
  /\ ctxDone = FALSE
  /\ mu = "none"
  /\ rConn = 0 /\ rChan = 0
  /\ conn = [d \in DialIds |-> "none"]
  /\ chan = [d \in DialIds |-> "none"]
  /\ dial = [d \in DialIds |-> "idle"]
  /\ nextDial = 1
  /\ pc = [p \in Procs |->
            IF p = Caller THEN (IF app = "sqs" THEN "s_check" ELSE "start") ELSE "off"]
  /\ ret = [p \in Procs |-> "none"]
  /\ myDial = [p \in Procs |-> 0]
  /\ rcI = [p \in Procs |-> 0]
  /\ stream = "none" /\ subs = 0 /\ nextMsg = 1 /\ cur = 0 /\ batch = <<>>
  /\ sem = 0 /\ wg = 0
  /\ wst = [m \in Msgs |-> "none"]
  /\ ehI = [m \in Msgs |-> 0]
  /\ log = [m \in Msgs |-> <<>>]
  /\ result = [p \in Procs |-> "none"]
  /\ sends = 0 /\ sendFailed = FALSE
  /\ reconnCalls = [p \in Procs |-> 0]
  /\ kAtCancel = -1 /\ subsAtCancel = -1 /\ lateAdmit = FALSE /\ retCtx = FALSE

\* Worker counts tried: the valid ones up to MaxWorkers, the invalid ones
\* next to the lower limit and, for SQS, both sides of its upper limit
\* (the counts outside 1..MaxWorkers with an empty errHandlers only).
WorkerCounts(a) ==
  CASE a = "consume" -> -1..MaxWorkers
    [] a = "sqs" -> (-1..MaxWorkers) \cup {SqsMaxWorkers, SqsMaxWorkers + 1}
    [] OTHER -> {1}

Init ==
  /\ app \in Apps
  /\ worker \in WorkerCounts(app)
  /\ nErr \in 0..MaxErrHandlers
  /\ serializable \in BOOLEAN
  /\ (app = "publish" => worker = 1 /\ nErr = 0)
  /\ (worker \notin 1..MaxWorkers => nErr = 0)
  /\ worker * nErr <= MaxPoolWork
  /\ (app # "publish" => serializable)
  /\ hdr = Header("absent", 0, <<>>) /\ retry = <<>>
  /\ InitProgram



\* ----------------------------------------------------- environment steps
\* The caller cancels ctx.
Cancel ==
  /\ ~ctxDone
  /\ ctxDone' = TRUE
  /\ kAtCancel' = Cardinality(Admitted)
  /\ subsAtCancel' = subs
  /\ UNCHANGED <<cfgVars, connVars, pc, loopVars, poolVars, result, pubVars,
                 reconnCalls, lateAdmit, retCtx>>

\* Closing channel d ends the deliveries of the subscription made on it.
StreamAfterClose == IF stream = "open" THEN "closed" ELSE stream
ChanAfterClose(d) == [chan EXCEPT ![d] = IF @ = "open" THEN "closed" ELSE @]

\* amqp.Dial returns in the goroutine started by connect (83-84).
DialFinish(d, ok) ==
  /\ dial[d] = "pending"
  /\ dial' = [dial EXCEPT ![d] = IF ok THEN "ok" ELSE "err"]
  /\ conn' = [conn EXCEPT ![d] = IF ok THEN "open" ELSE @]
  /\ UNCHANGED <<cfgVars, ctxDone, mu, rConn, rChan, chan, nextDial, pc, ret, myDial,
                 rcI, loopVars, poolVars, result, pubVars, reconnCalls, histVars>>

\* The broker or the network drops the live connection.
BrokerDrop ==
  /\ rConn # 0 /\ conn[rConn] = "open"
  /\ conn' = [conn EXCEPT ![rConn] = "closed"]
  /\ chan' = ChanAfterClose(rConn)
  /\ stream' = StreamAfterClose
  /\ UNCHANGED <<cfgVars, ctxDone, mu, rConn, rChan, dial, nextDial, pc, ret, myDial,
                 rcI, subs, nextMsg, cur, batch, poolVars, result, pubVars,
                 reconnCalls, histVars>>

\* ConsumeWithContext(ctx, ...): once ctx is done the consumer is cancelled
\* and its deliveries channel is closed.
ConsumerCancel ==
  /\ ctxDone /\ stream = "open"
  /\ stream' = "closed"
  /\ UNCHANGED <<cfgVars, ctxDone, connVars, pc, subs, nextMsg, cur, batch, poolVars,
                 result, pubVars, reconnCalls, histVars>>

\* ------------------------------------------------------------- r.mu
\* Variant: a mutex that never blocks.
CanLockAlways(p) == TRUE

\* sync.Mutex is not reentrant: Lock blocks while anyone, the caller
\* included, holds the mutex.
CanLock(p) == mu = "none"

\* ---------------------------------------------------- Connect / connect
Entry(p) == IF p = "consumer" THEN "cm_qos" ELSE "ps_marshal"

\* Connect (54-62): build r, call r.connect(ctx).
ConnectCall(p) ==
  /\ pc[p] = "start"
  /\ pc' = [pc EXCEPT ![p] = "c_lock"]
  /\ ret' = [ret EXCEPT ![p] = "Connect"]
  /\ UNCHANGED <<cfgVars, ctxDone, mu, rConn, rChan, conn, chan, dial, nextDial, myDial,
                 rcI, loopVars, poolVars, result, pubVars, reconnCalls, histVars>>

\* connect (75): r.mu.Lock().
ConnectLock(p) ==
  /\ pc[p] = "c_lock"
  /\ CanLock(p)
  /\ mu' = p
  /\ pc' = [pc EXCEPT ![p] = "c_dial"]
  /\ UNCHANGED <<cfgVars, ctxDone, rConn, rChan, conn, chan, dial, nextDial, ret, myDial,
                 rcI, loopVars, poolVars, result, pubVars, reconnCalls, histVars>>

\* connect (78-85): start the dial goroutine.
ConnectDial(p) ==
  /\ pc[p] = "c_dial"
  /\ nextDial <= MaxDials
  /\ dial' = [dial EXCEPT ![nextDial] = "pending"]
  /\ myDial' = [myDial EXCEPT ![p] = nextDial]
  /\ nextDial' = nextDial + 1
  /\ pc' = [pc EXCEPT ![p] = "c_select"]
  /\ UNCHANGED <<cfgVars, ctxDone, mu, rConn, rChan, conn, chan, ret, rcI, loopVars,
                 poolVars, result, pubVars, reconnCalls, histVars>>

\* Connect returned r (64-71): the caller goes on to its entry point and
\* the watcher goroutine waits for ctx.Done().  When r is shared, the
\* goroutines the application hands r to start as well: one about to call
\* r.PublishStruct, one about to call r.Close.
AfterConnect(p) ==
  IF app = "shared"
    THEN [pc EXCEPT ![p] = Entry(p), !["watcher"] = "w_wait",
                    !["publisher"] = "ps_marshal", !["closer"] = "cl_lock"]
    ELSE [pc EXCEPT ![p] = Entry(p), !["watcher"] = "w_wait"]

\* connect returns err to its caller: the deferred r.mu.Unlock() (76) runs,
\* then the caller goes on.
\*   Connect (62-71): an error is returned; otherwise the watcher goroutine
\*     is started and the connection handed to the application.
\*   Reconnect (140-149): after a failure, sleep i*3s and try again while
\*     i <= 5.  On return nil (143) or the final error (149) the deferred
\*     r.mu.Unlock() of Reconnect (130) unlocks the mutex that connect has
\*     just unlocked: "fatal error: sync: unlock of unlocked mutex".
ConnectReturn(p, err) ==
  /\ mu' = "none"
  /\ IF ret[p] = "Connect"
       THEN /\ rcI' = rcI
            /\ IF err
                 THEN /\ pc' = [pc EXCEPT ![p] = "exit"]
                      /\ result' = [result EXCEPT ![p] = "connect_err"]
                 ELSE /\ pc' = AfterConnect(p)
                      /\ result' = result
       ELSE IF err /\ rcI[p] < MaxReconnectAttempts
              THEN /\ rcI' = [rcI EXCEPT ![p] = @ + 1]
                   /\ pc' = [pc EXCEPT ![p] = "c_lock"]
                   /\ result' = result
              ELSE /\ rcI' = rcI
                   /\ pc' = [pc EXCEPT ![p] = "fatal"]
                   /\ result' = [result EXCEPT ![p] = "fatal"]

\* connect (87-89): select takes <-ctx.Done().
ConnectSelectCtx(p) ==
  /\ pc[p] = "c_select"
  /\ ctxDone
  /\ ConnectReturn(p, TRUE)
  /\ UNCHANGED <<cfgVars, ctxDone, rConn, rChan, conn, chan, dial, nextDial, ret, myDial,
                 loopVars, poolVars, pubVars, reconnCalls, histVars>>

\* connect (90-94): select takes <-done.
ConnectSelectDone(p) ==
  /\ pc[p] = "c_select"
  /\ dial[myDial[p]] \in {"ok", "err"}
  /\ IF dial[myDial[p]] = "err"
       THEN ConnectReturn(p, TRUE)
       ELSE /\ pc' = [pc EXCEPT ![p] = "c_channel"]
            /\ UNCHANGED <<mu, rcI, result>>
  /\ UNCHANGED <<cfgVars, ctxDone, rConn, rChan, conn, chan, dial, nextDial, ret, myDial,
                 loopVars, poolVars, pubVars, reconnCalls, histVars>>

\* connect (96-113): conn.Channel(); on error close conn, otherwise install
\* conn and ch in r.  chOk is the broker's answer; a closed connection
\* opens no channel.
ConnectChannel(p, chOk) ==
  /\ pc[p] = "c_channel"
  /\ LET d == myDial[p]
         ok == chOk /\ conn[d] = "open"
     IN  IF ok
           THEN /\ rConn' = d /\ rChan' = d
                /\ chan' = [chan EXCEPT ![d] = "open"]
                /\ conn' = conn
                /\ ConnectReturn(p, FALSE)
           ELSE /\ conn' = [conn EXCEPT ![d] = "closed"]
                /\ UNCHANGED <<rConn, rChan, chan>>
                /\ ConnectReturn(p, TRUE)
  /\ UNCHANGED <<cfgVars, ctxDone, dial, nextDial, ret, myDial, loopVars, poolVars,
                 pubVars, reconnCalls, histVars>>

\* ------------------------------------------------- watcher and Close
\* Variant: r.Connection.Close() leaves the transport open.
ConnAfterCloseLeftOpen(d) == conn

\* r.Connection.Close() (124, 135) on the connection opened by dial d.
ConnAfterClose(d) == [conn EXCEPT ![d] = "closed"]

\* Connect (66-68): <-ctx.Done(), then r.Close().
WatcherWake ==
  /\ pc["watcher"] = "w_wait"
  /\ ctxDone
  /\ pc' = [pc EXCEPT !["watcher"] = "cl_lock"]
  /\ UNCHANGED <<cfgVars, ctxDone, connVars, loopVars, poolVars, result, pubVars,
                 reconnCalls, histVars>>

\* Close (117): r.mu.Lock().
CloseLock(p) ==
  /\ pc[p] = "cl_lock"
  /\ CanLock(p)
  /\ mu' = p
  /\ pc' = [pc EXCEPT ![p] = "cl_chan"]
  /\ UNCHANGED <<cfgVars, ctxDone, rConn, rChan, conn, chan, dial, nextDial, ret, myDial,
                 rcI, loopVars, poolVars, result, pubVars, reconnCalls, histVars>>

\* Close (120-122): r.Channel.Close().
CloseChannel(p) ==
  /\ pc[p] = "cl_chan"
  /\ IF rChan # 0
       THEN /\ chan' = ChanAfterClose(rChan)
            /\ stream' = StreamAfterClose
       ELSE UNCHANGED <<chan, stream>>
  /\ pc' = [pc EXCEPT ![p] = "cl_conn"]
  /\ UNCHANGED <<cfgVars, ctxDone, mu, rConn, rChan, conn, dial, nextDial, ret, myDial,
                 rcI, subs, nextMsg, cur, batch, poolVars, result, pubVars,
                 reconnCalls, histVars>>

\* Close (123-125 and the deferred Unlock of 118): r.Connection.Close().
CloseConnection(p) ==
  /\ pc[p] = "cl_conn"
  /\ IF rConn # 0 /\ conn[rConn] = "open"
       THEN /\ conn' = ConnAfterClose(rConn)
            /\ chan' = ChanAfterClose(rConn)
            /\ stream' = StreamAfterClose
       ELSE UNCHANGED <<conn, chan, stream>>
  /\ mu' = "none"
  /\ pc' = [pc EXCEPT ![p] = "w_done"]
  /\ UNCHANGED <<cfgVars, ctxDone, rConn, rChan, dial, nextDial, ret, myDial, rcI,
                 subs, nextMsg, cur, batch, poolVars, result, pubVars, reconnCalls,
                 histVars>>

\* ------------------------------------------------------------ Reconnect
\* Reconnect (129): r.mu.Lock().
ReconnectLock(p) ==
  /\ pc[p] = "rc_lock"
  /\ CanLock(p)
  /\ mu' = p
  /\ pc' = [pc EXCEPT ![p] = "rc_close"]
  /\ UNCHANGED <<cfgVars, ctxDone, rConn, rChan, conn, chan, dial, nextDial, ret, myDial,
                 rcI, loopVars, poolVars, result, pubVars, reconnCalls, histVars>>

\* Reconnect (134-140): close the previous connection if it is still open,
\* then call r.connect(ctx) with i = 1.  r.mu is still held.
ReconnectClose(p) ==
  /\ pc[p] = "rc_close"
  /\ IF rConn # 0 /\ conn[rConn] = "open"
       THEN /\ conn' = ConnAfterClose(rConn)
            /\ chan' = ChanAfterClose(rConn)
            /\ stream' = StreamAfterClose
       ELSE UNCHANGED <<conn, chan, stream>>
  /\ rcI' = [rcI EXCEPT ![p] = 1]
  /\ ret' = [ret EXCEPT ![p] = "Reconnect"]
  /\ pc' = [pc EXCEPT ![p] = "c_lock"]
  /\ UNCHANGED <<cfgVars, ctxDone, mu, rConn, rChan, dial, nextDial, myDial, subs,
                 nextMsg, cur, batch, poolVars, result, pubVars, reconnCalls, histVars>>


\* ------------------------------------------------------- worker pool
\* Variant: a semaphore with one slot too many.
SemHasRoomOffByOne == sem <= worker
\* Variant: wg.Wait() left out before the return.
WgIsZeroNoWait == TRUE

\* sem <- struct{}{} goes through only while len(sem) < cap(sem) = worker.
SemHasRoom == sem < worker
\* wg.Wait() returns only when the counter is zero.
WgIsZero == wg = 0

\* The entry point of p returns res.
Return(p, res) ==
  /\ pc' = [pc EXCEPT ![p] = "returned"]
  /\ result' = [result EXCEPT ![p] = res]
  /\ retCtx' = ctxDone

\* After a failure: the first error-handler, or the end of the worker
\* when errHandlers is empty.
ChainStart(m) ==
  /\ wst' = [wst EXCEPT ![m] = IF nErr > 0 THEN "errh" ELSE "release"]
  /\ ehI' = [ehI EXCEPT ![m] = 1]

\* Variant: the test of the handler's error inverted.
AfterHandlerInverted(ok) == IF ok THEN "nack" ELSE "ack"

\* RabbitMQ worker (191-200): a failed handler leads to Nack, a successful
\* one to Ack.
AfterHandler(ok) == IF ok THEN "ack" ELSE "nack"

\* Variant: the SQS worker deletes the message whatever the handler returned.
DeleteAfterAlways(ok) == TRUE

\* SQS worker (321-332): the worker goes on to s.DeleteMessage only when
\* the handler returned nil.
DeleteAfter(ok) == ok

\* handler(ctx, msg) returns (191 / 321); ok is err == nil.
HandlerReturn(m, ok) ==
  /\ wst[m] = "handler"
  /\ log' = [log EXCEPT ![m] = Append(@, Ev("handler", 0, ok))]
  /\ IF app = "consume"
       THEN /\ wst' = [wst EXCEPT ![m] = AfterHandler(ok)]
            /\ ehI' = ehI
       ELSE IF DeleteAfter(ok)
              THEN /\ wst' = [wst EXCEPT ![m] = "delete"]
                   /\ ehI' = ehI
              ELSE ChainStart(m)
  /\ UNCHANGED <<cfgVars, ctxDone, connVars, pc, loopVars, sem, wg, result, pubVars,
                 reconnCalls, histVars>>

\* RabbitMQ worker (192): _ = msg.Nack(false, true).
Nack(m) ==
  /\ wst[m] = "nack"
  /\ log' = [log EXCEPT ![m] = Append(@, Ev("nack", 0, NackRequeue))]
  /\ ChainStart(m)
  /\ UNCHANGED <<cfgVars, ctxDone, connVars, pc, loopVars, sem, wg, result, pubVars,
                 reconnCalls, histVars>>

\* RabbitMQ worker (200): _ = msg.Ack(false).
Ack(m) ==
  /\ wst[m] = "ack"
  /\ log' = [log EXCEPT ![m] = Append(@, Ev("ack", 0, TRUE))]
  /\ wst' = [wst EXCEPT ![m] = "release"]
  /\ UNCHANGED <<cfgVars, ctxDone, connVars, pc, loopVars, sem, wg, ehI, result,
                 pubVars, reconnCalls, histVars>>

\* Variant: the chain ignores the error an error-handler returns.
ChainGoesOnIgnoringError(m, ok) == ehI[m] < nErr

\* The range over errHandlers goes on after handler ehI[m] returned ok
\* (e == nil) while handlers are left (193-197).
ChainGoesOn(m, ok) == ok /\ ehI[m] < nErr

\* Error-handler ehI[m] returns (193-198 / 322-327 / 334-339): the chain
\* stops at the first failure and after the last handler.
ErrHandler(m, ok) ==
  /\ wst[m] = "errh"
  /\ log' = [log EXCEPT ![m] = Append(@, Ev("errh", ehI[m], ok))]
  /\ IF ChainGoesOn(m, ok)
       THEN /\ ehI' = [ehI EXCEPT ![m] = @ + 1]
            /\ wst' = wst
       ELSE /\ ehI' = ehI
            /\ wst' = [wst EXCEPT ![m] = "release"]
  /\ UNCHANGED <<cfgVars, ctxDone, connVars, pc, loopVars, sem, wg, result, pubVars,
                 reconnCalls, histVars>>

\* SQS worker (329-340): s.DeleteMessage; on error the error-handler chain.
Delete(m, ok) ==
  /\ wst[m] = "delete"
  /\ log' = [log EXCEPT ![m] = Append(@, Ev("delete", 0, ok))]
  /\ IF ok
       THEN /\ wst' = [wst EXCEPT ![m] = "release"]
            /\ ehI' = ehI
       ELSE ChainStart(m)
  /\ UNCHANGED <<cfgVars, ctxDone, connVars, pc, loopVars, sem, wg, result, pubVars,
                 reconnCalls, histVars>>

\* Variant: the deferred function does not give the slot back.
SemAfterReleaseKept == sem

\* len(sem) after the receive <-sem of the deferred function (187 / 318).
SemAfterRelease == sem - 1

\* Deferred function of the worker (187 / 318): <-sem.  The body of the
\* worker has returned: the record of its calls is complete and is dropped.
Release(m) ==
  /\ wst[m] = "release"
  /\ sem' = SemAfterRelease
  /\ wst' = [wst EXCEPT ![m] = "wgdone"]
  /\ log' = [log EXCEPT ![m] = <<>>]
  /\ ehI' = [ehI EXCEPT ![m] = 0]
  /\ UNCHANGED <<cfgVars, ctxDone, connVars, pc, loopVars, wg, result,
                 pubVars, reconnCalls, histVars>>

\* Deferred function of the worker (188 / 319): wg.Done().
WgDone(m) ==
  /\ wst[m] = "wgdone"
  /\ wg' = wg - 1
  /\ wst' = [wst EXCEPT ![m] = "done"]
  /\ UNCHANGED <<cfgVars, ctxDone, connVars, pc, loopVars, sem, ehI, log, result,
                 pubVars, reconnCalls, histVars>>

\* Admission of delivery m: the slot is taken, wg.Add(1), go func(m)
\* (183-185 / 314-316).
Admit(m) ==
  /\ sem' = sem + 1
  /\ wg' = wg + 1
  /\ wst' = [wst EXCEPT ![m] = "handler"]
  /\ lateAdmit' = (lateAdmit \/ ctxDone)
  /\ UNCHANGED <<ehI, log>>

\* ------------------------------------ ConnRabbitMQ.ConsumerMessages
\* (154-156) r.Channel.Qos(worker, 0, false).
CmQos ==
  /\ pc["consumer"] = "cm_qos"
  /\ IF chan[rChan] = "open"
       THEN /\ pc' = [pc EXCEPT !["consumer"] = "cm_consume"]
            /\ UNCHANGED <<result, retCtx>>
       ELSE Return("consumer", "qos_err")
  /\ UNCHANGED <<cfgVars, ctxDone, connVars, loopVars, poolVars, pubVars, reconnCalls,
                 kAtCancel, subsAtCancel, lateAdmit>>

\* (158-164) r.Channel.ConsumeWithContext, then a new sem and WaitGroup:
\* make(chan struct{}, worker) panics when worker is negative.
CmConsume ==
  /\ pc["consumer"] = "cm_consume"
  /\ IF chan[rChan] = "open"
       THEN /\ stream' = "open"
            /\ subs' = subs + 1
            /\ sem' = 0 /\ wg' = 0
            /\ IF worker < 0
                 THEN /\ pc' = [pc EXCEPT !["consumer"] = "fatal"]
                      /\ result' = [result EXCEPT !["consumer"] = "panic"]
                 ELSE /\ pc' = [pc EXCEPT !["consumer"] = "cm_select"]
                      /\ result' = result
            /\ retCtx' = retCtx
       ELSE /\ Return("consumer", "consume_err")
            /\ UNCHANGED <<stream, subs, sem, wg>>
  /\ UNCHANGED <<cfgVars, ctxDone, connVars, nextMsg, cur, batch, wst, ehI, log,
                 pubVars, reconnCalls, kAtCancel, subsAtCancel, lateAdmit>>

\* (168-169) select takes <-ctx.Done().
CmSelectCtx ==
  /\ pc["consumer"] = "cm_select"
  /\ ctxDone
  /\ pc' = [pc EXCEPT !["consumer"] = "cm_wait"]
  /\ UNCHANGED <<cfgVars, ctxDone, connVars, loopVars, poolVars, result, pubVars,
                 reconnCalls, histVars>>

\* (172) select takes d, ok := <-msgs with ok = true.
CmReceive ==
  /\ pc["consumer"] = "cm_select"
  /\ stream = "open"
  /\ nextMsg <= MaxMsgs
  /\ cur' = nextMsg
  /\ nextMsg' = nextMsg + 1
  /\ pc' = [pc EXCEPT !["consumer"] = "cm_acquire"]
  /\ UNCHANGED <<cfgVars, ctxDone, connVars, stream, subs, batch, poolVars, result,
                 pubVars, reconnCalls, histVars>>

\* (172-176) what the loop does when msgs is closed: sleep 3s, then call
\* r.Reconnect(ctx); no return statement is on this path.
OnClosed == "rc_lock"

\* (172-176) select takes <-msgs with ok = false: sleep 3s, call
\* r.Reconnect(ctx).  Were Reconnect to return, both break (180) and
\* continue (178) lead back to this select on the same msgs.
CmClosed ==
  /\ pc["consumer"] = "cm_select"
  /\ stream = "closed"
  /\ reconnCalls' = [reconnCalls EXCEPT !["consumer"] = @ + 1]
  /\ pc' = [pc EXCEPT !["consumer"] = OnClosed]
  /\ UNCHANGED <<cfgVars, ctxDone, connVars, loopVars, poolVars, result, pubVars,
                 histVars>>

\* (183-185) sem <- struct{}{}; wg.Add(1); go func(d).
CmAcquire ==
  /\ pc["consumer"] = "cm_acquire"
  /\ SemHasRoom
  /\ Admit(cur)
  /\ cur' = 0
  /\ pc' = [pc EXCEPT !["consumer"] = "cm_select"]
  /\ UNCHANGED <<cfgVars, ctxDone, connVars, stream, subs, nextMsg, batch, result,
                 pubVars, reconnCalls, kAtCancel, subsAtCancel, retCtx>>

\* (169-170) wg.Wait(), then return the shutdown error.
CmWait ==
  /\ pc["consumer"] = "cm_wait"
  /\ WgIsZero
  /\ Return("consumer", "ctx_closed")
  /\ UNCHANGED <<cfgVars, ctxDone, connVars, loopVars, poolVars, pubVars, reconnCalls,
                 kAtCancel, subsAtCancel, lateAdmit>>

\* ------------------------------------------------------ PublishStruct
\* (208-211) json.Marshal(data).
PubMarshal ==
  /\ pc["publisher"] = "ps_marshal"
  /\ IF serializable
       THEN /\ pc' = [pc EXCEPT !["publisher"] = "ps_send"]
            /\ UNCHANGED <<result, retCtx>>
       ELSE Return("publisher", "serialize_err")
  /\ UNCHANGED <<cfgVars, ctxDone, connVars, loopVars, poolVars, pubVars, reconnCalls,
                 kAtCancel, subsAtCancel, lateAdmit>>

\* (213-240) r.Channel.PublishWithContext: the first send (213), or the
\* second one (225) reached when Reconnect returned nil.  brokerOk is the
\* broker's answer; a closed channel sends nothing.
PubSend(brokerOk) ==
  /\ pc["publisher"] = "ps_send"
  /\ sends' = sends + 1
  /\ LET ok == brokerOk /\ chan[rChan] = "open"
     IN  IF ok
           THEN /\ Return("publisher", "nil")
                /\ UNCHANGED <<sendFailed, reconnCalls>>
           ELSE IF sends = 0
                  THEN /\ sendFailed' = TRUE
                       /\ reconnCalls' = [reconnCalls EXCEPT !["publisher"] = @ + 1]
                       /\ pc' = [pc EXCEPT !["publisher"] = "rc_lock"]
                       /\ UNCHANGED <<result, retCtx>>
                  ELSE /\ Return("publisher", "publish_err")
                       /\ UNCHANGED <<sendFailed, reconnCalls>>
  /\ UNCHANGED <<cfgVars, ctxDone, connVars, loopVars, poolVars, kAtCancel,
                 subsAtCancel, lateAdmit>>

\* --------------------------------------- ConnSQS.ConsumerMessages
\* Variant: the check without its lower limit.
WorkerOutOfRangeNoLowerLimit == worker > SqsMaxWorkers

\* (293) worker > 10 || worker <= 0.
WorkerOutOfRange == worker > SqsMaxWorkers \/ worker <= 0

\* (293-297) the worker-count check, then sem and wg.
SqsCheck ==
  /\ pc["sqs"] = "s_check"
  /\ IF WorkerOutOfRange
       THEN Return("sqs", "invalid_workers")
       ELSE /\ pc' = [pc EXCEPT !["sqs"] = "s_fetch"]
            /\ UNCHANGED <<result, retCtx>>
  /\ UNCHANGED <<cfgVars, ctxDone, connVars, loopVars, poolVars, pubVars, reconnCalls,
                 kAtCancel, subsAtCancel, lateAdmit>>

\* (299-307) s.ReceiveMessage(ctx, ...): an error (always, once ctx is
\* cancelled) makes the call sleep 2s and return it; otherwise the queue
\* hands out k <= MaxNumberOfMessages messages.
SqsFetch(k, fail) ==
  /\ pc["sqs"] = "s_fetch"
  /\ k \in 0..Min(MaxNumberOfMessages, MaxMsgs - nextMsg + 1)
  /\ IF fail \/ ctxDone
       THEN /\ Return("sqs", "fetch_err")
            /\ UNCHANGED <<batch, nextMsg>>
       ELSE /\ batch' = [i \in 1..k |-> nextMsg + i - 1]
            /\ nextMsg' = nextMsg + k
            /\ pc' = [pc EXCEPT !["sqs"] = "s_iter"]
            /\ UNCHANGED <<result, retCtx>>
  /\ UNCHANGED <<cfgVars, ctxDone, connVars, stream, subs, cur, poolVars, pubVars,
                 reconnCalls, kAtCancel, subsAtCancel, lateAdmit>>

\* (309) the range over resp.Messages is exhausted: fetch again.
SqsNext ==
  /\ pc["sqs"] = "s_iter"
  /\ batch = <<>>
  /\ pc' = [pc EXCEPT !["sqs"] = "s_fetch"]
  /\ UNCHANGED <<cfgVars, ctxDone, connVars, loopVars, poolVars, result, pubVars,
                 reconnCalls, histVars>>

\* (311) select takes <-ctx.Done().
SqsIterCtx ==
  /\ pc["sqs"] = "s_iter"
  /\ batch # <<>>
  /\ ctxDone
  /\ pc' = [pc EXCEPT !["sqs"] = "s_wait"]
  /\ UNCHANGED <<cfgVars, ctxDone, connVars, loopVars, poolVars, result, pubVars,
                 reconnCalls, histVars>>

\* (314-316) select takes sem <- struct{}{}: wg.Add(1); go func(msg).
SqsAdmit ==
  /\ pc["sqs"] = "s_iter"
  /\ batch # <<>>
  /\ SemHasRoom
  /\ Admit(Head(batch))
  /\ batch' = Tail(batch)
  /\ UNCHANGED <<cfgVars, ctxDone, connVars, pc, stream, subs, nextMsg, cur, result,
                 pubVars, reconnCalls, kAtCancel, subsAtCancel, retCtx>>

\* (312-313) wg.Wait(), then return.
SqsWait ==
  /\ pc["sqs"] = "s_wait"
  /\ WgIsZero
  /\ Return("sqs", "ctx_closed")
  /\ UNCHANGED <<cfgVars, ctxDone, connVars, loopVars, poolVars, pubVars, reconnCalls,
                 kAtCancel, subsAtCancel, lateAdmit>>

\* --------------------------------------------------------- Redelivery
\* Text is a sequence of one-character strings.
Digit == <<"0", "1", "2", "3", "4", "5", "6", "7", "8", "9">>
IsDigit(c) == \E d \in 1..10 : Digit[d] = c
DigitValue(c) == (CHOOSE d \in 1..10 : Digit[d] = c) - 1

RECURSIVE Digits(_)
\* The decimal digits of n >= 0.
Digits(n) == IF n < 10 THEN <<Digit[n + 1]>>
             ELSE Append(Digits(n \div 10), Digit[(n % 10) + 1])

\* fmt %v of a value of an integer type: strconv.FormatInt(n, 10).
FormatInt(n) == IF n < 0 THEN <<"-">> \o Digits(-n) ELSE Digits(n)

RECURSIVE StripZeros(_)
StripZeros(t) == IF Len(t) > 1 /\ t[Len(t)] = "0"
                   THEN StripZeros(SubSeq(t, 1, Len(t) - 1))
                   ELSE t

\* fmt %v of a float32 / float64 holding the integral value n:
\* strconv.FormatFloat(n, 'g', -1, size).  With the shortest digits,
\* the exponent form is used when the decimal exponent is 6 or more.
FormatFloat(n) ==
  LET a == IF n < 0 THEN -n ELSE n
      sign == IF n < 0 THEN <<"-">> ELSE <<>>
      ds == Digits(a)
      sig == StripZeros(ds)
      exp == Len(ds) - 1
      e2 == IF exp < 10 THEN <<"0">> \o Digits(exp) ELSE Digits(exp)
  IN  IF a # 0 /\ exp >= 6
        THEN sign \o <<sig[1]>>
                  \o (IF Len(sig) > 1 THEN <<".">> \o Tail(sig) ELSE <<>>)
                  \o <<"e", "+">> \o e2
        ELSE sign \o ds

\* fmt.Sprintf("%v", count) (46).
Sprint(v) ==
  CASE v.kind = "int" -> FormatInt(v.n)
    [] v.kind = "float" -> FormatFloat(v.n)
    [] v.kind = "string" -> v.s
    [] v.kind = "bool" -> IF v.n = 1 THEN <<"t", "r", "u", "e">>
                                     ELSE <<"f", "a", "l", "s", "e">>
    [] OTHER -> <<"<", "n", "i", "l", ">">>

RECURSIVE DigitsValue(_)
DigitsValue(t) == IF t = <<>> THEN 0
                  ELSE 10 * DigitsValue(SubSeq(t, 1, Len(t) - 1)) + DigitValue(t[Len(t)])

\* strconv.Atoi(t): an optional sign, then one or more decimal digits.
\* (Texts of the lengths tried here stay far below the range of int.)
Atoi(t) ==
  LET signed == Len(t) >= 1 /\ t[1] \in {"+", "-"}
      body == IF signed THEN Tail(t) ELSE t
  IN  IF body = <<>> \/ \E k \in 1..Len(body) : ~IsDigit(body[k])
        THEN [err |-> TRUE, v |-> 0]
        ELSE [err |-> FALSE,
              v |-> IF signed /\ t[1] = "-" THEN -DigitsValue(body)
                                            ELSE DigitsValue(body)]

\* Redelivery (42-52).
Redelivery(h) ==
  IF h.kind = "absent" THEN 0
  ELSE IF Atoi(Sprint(h)).err THEN 0 ELSE Atoi(Sprint(h)).v

\* Header values tried.  Numbers: the small ones and three around 10^6.
Alphabet == {"0", "1", "7", "-", "+", "x", "."}
Texts == UNION {[1..k -> Alphabet] : k \in 0..MaxStrLen}
Counts == (-MaxCount..MaxCount) \cup {999999, 1000000, 1234567}
Headers ==
  {Header("absent", 0, <<>>), Header("nil", 0, <<>>)}
    \cup {Header("bool", n, <<>>) : n \in 0..1}
    \cup {Header("int", n, <<>>) : n \in Counts}
    \cup {Header("float", n, <<>>) : n \in Counts}
    \cup {Header("string", 0, t) : t \in Texts}
    \cup {Header("string", 0, FormatInt(n)) : n \in Counts}

\* The call Redelivery(b) on a delivery whose header is hdr.
RedeliveryCall ==
  /\ retry = <<>>
  /\ retry' = <<Redelivery(hdr)>>
  /\ UNCHANGED <<app, worker, nErr, serializable, hdr, ctxDone, connVars, pc, loopVars,
                 poolVars, result, pubVars, reconnCalls, histVars>>

\* ------------------------------------------------------ specification
RabbitCallers == {"consumer", "publisher"}

\* Steps of the program's goroutines and of the library goroutines that
\* serve them (everything but the caller's cancel and the broker's drop).
ProgramNext ==
  \/ \E d \in DialIds, ok \in BOOLEAN : DialFinish(d, ok)
  \/ ConsumerCancel
  \/ \E p \in RabbitCallers : ConnectCall(p)
  \/ \E p \in RabbitCallers : ConnectLock(p)
  \/ \E p \in RabbitCallers : ConnectDial(p)
  \/ \E p \in RabbitCallers : ConnectSelectCtx(p)
  \/ \E p \in RabbitCallers : ConnectSelectDone(p)
  \/ \E p \in RabbitCallers, chOk \in BOOLEAN : ConnectChannel(p, chOk)
  \/ WatcherWake
  \/ CloseLock("watcher")
  \/ CloseChannel("watcher")
  \/ CloseConnection("watcher")
  \/ \E p \in RabbitCallers : ReconnectLock(p)
  \/ \E p \in RabbitCallers : ReconnectClose(p)
  \/ \E m \in Msgs, ok \in BOOLEAN : HandlerReturn(m, ok)
  \/ \E m \in Msgs : Nack(m)
  \/ \E m \in Msgs : Ack(m)
  \/ \E m \in Msgs, ok \in BOOLEAN : ErrHandler(m, ok)
  \/ \E m \in Msgs, ok \in BOOLEAN : Delete(m, ok)
  \/ \E m \in Msgs : Release(m)
  \/ \E m \in Msgs : WgDone(m)
  \/ CmQos
  \/ CmConsume
  \/ CmSelectCtx
  \/ CmReceive
  \/ CmClosed
  \/ CmAcquire
  \/ CmWait
  \/ PubMarshal
  \/ \E ok \in BOOLEAN : PubSend(ok)
  \/ SqsCheck
  \/ \E k \in 0..MaxMsgs, fail \in BOOLEAN : SqsFetch(k, fail)
  \/ SqsNext
  \/ SqsIterCtx
  \/ SqsAdmit
  \/ SqsWait

Next == Cancel \/ BrokerDrop \/ ProgramNext

Spec == Init /\ [][Next]_vars

\* One connection shared by the consumer loop, a publisher and a goroutine
\* calling Close; the broker delivers no message.
Closers == {"watcher", "closer"}

InitShared ==
  /\ app = "shared" /\ worker = 1 /\ nErr = 0 /\ serializable = TRUE
  /\ hdr = Header("absent", 0, <<>>) /\ retry = <<>>
  /\ InitProgram

ProgramNextShared ==
  \/ \E d \in DialIds, ok \in BOOLEAN : DialFinish(d, ok)
  \/ ConsumerCancel
  \/ \E p \in RabbitCallers : ConnectCall(p)
  \/ \E p \in RabbitCallers : ConnectLock(p)
  \/ \E p \in RabbitCallers : ConnectDial(p)
  \/ \E p \in RabbitCallers : ConnectSelectCtx(p)
  \/ \E p \in RabbitCallers : ConnectSelectDone(p)
  \/ \E p \in RabbitCallers, chOk \in BOOLEAN : ConnectChannel(p, chOk)
  \/ WatcherWake
  \/ \E p \in Closers : CloseLock(p)
  \/ \E p \in Closers : CloseChannel(p)
  \/ \E p \in Closers : CloseConnection(p)
  \/ \E p \in RabbitCallers : ReconnectLock(p)
  \/ \E p \in RabbitCallers : ReconnectClose(p)
  \/ CmQos
  \/ CmConsume
  \/ CmSelectCtx
  \/ CmClosed
  \/ CmWait
  \/ PubMarshal
  \/ \E ok \in BOOLEAN : PubSend(ok)

NextShared == Cancel \/ BrokerDrop \/ ProgramNextShared

SpecShared == InitShared /\ [][NextShared]_vars

\* Redelivery on its own: one header value, one call.
InitRedelivery ==
  /\ app = "redelivery" /\ worker = 1 /\ nErr = 0 /\ serializable = TRUE
  /\ hdr \in Headers /\ retry = <<>>
  /\ InitProgram

NextRedelivery == RedeliveryCall

SpecRedelivery == InitRedelivery /\ [][NextRedelivery]_vars


\* ------------------------------------------------------------ properties
\* No step of any goroutine, of the broker or of the caller is possible.
Quiescent == ~ENABLED Next
\* No goroutine of the program can take a step.
ProgramAtRest == ~ENABLED ProgramNext

\* The body of the worker of m has returned; its deferred function is next.
Finished(m) == wst[m] = "release"
InHandler == {m \in Msgs : wst[m] = "handler"}
Count(L, op) == Cardinality({k \in 1..Len(L) : L[k].op = op})
HandlerOk(m) == Len(log[m]) >= 1 /\ log[m][1] = Ev("handler", 0, TRUE)
HandlerFailed(m) == Len(log[m]) >= 1 /\ log[m][1] = Ev("handler", 0, FALSE)
InReconnect(p) ==
  \/ pc[p] \in {"rc_lock", "rc_close"}
  \/ ret[p] = "Reconnect" /\ pc[p] \in {"c_lock", "c_dial", "c_select", "c_channel"}

\* C1: in the RabbitMQ loop and in the SQS loop, for every worker count
\* N >= 1, the number of workers running handler code (handler, ack/nack,
\* delete, error-handlers) never exceeds N.
C1_BoundedConcurrency ==
  worker >= 1 => Cardinality(Running) <= worker

\* C1 witness: N handlers are running and the loop holds one more message
\* that waits for a slot.
C1_Saturated ==
  /\ Cardinality(InHandler) = worker
  /\ \/ pc["consumer"] = "cm_acquire"
     \/ pc["sqs"] = "s_iter" /\ batch # <<>>

\* C2 (as claimed): every call to Reconnect comes to an end: when no
\* goroutine of the program can move any more, none is still inside
\* Reconnect; and no call goes beyond 5 attempts.
C2_ReconnectTerminates ==
  /\ \A p \in RabbitCallers : rcI[p] <= MaxReconnectAttempts
  /\ ProgramAtRest => \A p \in RabbitCallers : ~InReconnect(p)

\* C3 (as claimed): a loop whose stream closed while the context is active
\* re-subscribes: with the context still active, the program does not come
\* to rest on a closed stream before ConsumeWithContext has been called a
\* second time.
C3_Resubscribes ==
  (app = "consume" /\ stream = "closed" /\ ~ctxDone /\ ProgramAtRest) => subs >= 2

\* C4: RabbitMQ ConsumerMessages has not returned while a worker it
\* admitted is still in flight.
C4_ReturnsAfterWorkers ==
  (app = "consume" /\ pc["consumer"] = "returned") => Admitted = {}

\* C4 witness: the context was cancelled with two workers in flight and
\* ConsumerMessages has returned its shutdown error.
C4_ReturnedAfterDrain ==
  /\ app = "consume" /\ kAtCancel >= 2
  /\ pc["consumer"] = "returned" /\ result["consumer"] = "ctx_closed"

\* C5 (as claimed): SQS ConsumerMessages, returning after the context was
\* cancelled with workers in flight, has no worker in flight any more.
C5_SqsReturnsAfterWorkers ==
  (app = "sqs" /\ pc["sqs"] = "returned" /\ retCtx /\ kAtCancel >= 1) => Admitted = {}

\* C6: RabbitMQ: a delivery whose handler returned nil is never nacked,
\* gets no error-handler call, is acked at most once, and has been acked
\* exactly once when its worker ends.
C6_SuccessAckedOnce ==
  app = "consume" =>
    \A m \in Msgs : HandlerOk(m) =>
      /\ Count(log[m], "nack") = 0
      /\ Count(log[m], "errh") = 0
      /\ Count(log[m], "ack") <= 1
      /\ Finished(m) => Count(log[m], "ack") = 1

\* C6 witness: a worker whose handler succeeded has ended.
C6_SuccessDone ==
  app = "consume" /\ \E m \in Msgs : HandlerOk(m) /\ Finished(m)

\* C7: RabbitMQ: a delivery whose handler failed is never acked; the
\* worker's next call is Nack with requeue, made once; after it come the
\* error-handlers 1, 2, ... in order, each one only after all earlier ones
\* returned success; when the worker ends, either every error-handler was
\* called or the last one called failed.
C7_FailureNackedThenChain ==
  app = "consume" =>
    \A m \in Msgs : HandlerFailed(m) =>
      LET L == log[m] IN
      /\ Count(L, "ack") = 0
      /\ Count(L, "nack") <= 1
      /\ Len(L) >= 2 => L[2] = Ev("nack", 0, TRUE)
      /\ \A k \in 3..Len(L) :
           /\ L[k].op = "errh" /\ L[k].i = k - 2 /\ L[k].i <= nErr
           /\ k < Len(L) => L[k].ok
      /\ Finished(m) =>
           /\ Len(L) >= 2
           /\ Len(L) = nErr + 2 \/ (Len(L) >= 3 /\ ~L[Len(L)].ok)

\* C7 witness: with two error-handlers, the first one failed and the
\* worker ended without calling the second.
C7_ChainStoppedAtFailure ==
  /\ app = "consume" /\ nErr = 2
  /\ \E m \in Msgs : /\ HandlerFailed(m) /\ Finished(m)
                     /\ Len(log[m]) = 3 /\ ~log[m][3].ok

\* C8 (as claimed): PublishStruct sends at most twice and calls Reconnect
\* at most once; a second send is made only after a failed first one; and
\* a call whose first send failed comes to its end by returning.
C8_PublishRetriesOnce ==
  app = "publish" =>
    /\ sends <= 2 /\ reconnCalls["publisher"] <= 1
    /\ sends = 2 => sendFailed
    /\ (sendFailed /\ ProgramAtRest) => pc["publisher"] = "returned"

\* C9 (as claimed): after the context is cancelled under a subscribed
\* RabbitMQ loop, the loop returns: once every worker has ended and nothing
\* can move any more, ConsumerMessages has returned.
C9_ReturnsAfterCancel ==
  (app = "consume" /\ subsAtCancel >= 1 /\ Quiescent) => pc["consumer"] = "returned"

\* C10 (as claimed): no worker is started once the context is cancelled.
C10_NoAdmitAfterCancel == ~lateAdmit

\* The half of C11 that the return statements alone decide: once
\* ConsumeWithContext has succeeded, a returned RabbitMQ ConsumerMessages
\* found ctx.Done() closed (170 is the only return after line 161).
C11_NoReturnWhileActive ==
  (app = "consume" /\ subs >= 1 /\ pc["consumer"] = "returned") => retCtx

\* C11 (as claimed): once subscribed, and called with a worker count
\* N >= 1, RabbitMQ ConsumerMessages does not return while the context is
\* active, and it keeps retrying: with the stream closed and the context
\* active the loop is never stopped for good, after a Reconnect that did
\* not succeed it calls Reconnect again.
C11_KeepsRetrying ==
  /\ C11_NoReturnWhileActive
  /\ (app = "consume" /\ worker >= 1 /\ subs >= 1 /\ ~ctxDone /\ stream = "closed")
       => ~ProgramAtRest

\* C12 (as claimed): SQS ConsumerMessages, called with a worker count in
\* 1..10, returns only with the context cancelled.
C12_SqsReturnsOnlyOnCancel ==
  (app = "sqs" /\ worker \in 1..SqsMaxWorkers /\ pc["sqs"] = "returned") => retCtx

\* C13 (as claimed): SQS: a message gets an error-handler call only when
\* its handler returned failure.
C13_ChainOnlyOnHandlerFailure ==
  app = "sqs" =>
    \A m \in Msgs : Count(log[m], "errh") >= 1 => HandlerFailed(m)

\* C14 (as claimed): RabbitMQ ConsumerMessages called with a worker count
\* below 1 never subscribes to the queue, never panics and never waits for
\* a slot of the semaphore.
C14_RejectsInvalidWorkers ==
  (app = "consume" /\ worker < 1) =>
    /\ subs = 0
    /\ result["consumer"] # "panic"
    /\ pc["consumer"] # "cm_acquire"

\* C15: SQS ConsumerMessages called with a worker count outside 1..10
\* goes from its check straight to the return of the worker-count error:
\* it never fetches and starts no worker; called with a worker count
\* inside 1..10 it never returns that error.
C15_SqsWorkerRange ==
  app = "sqs" =>
    /\ worker \notin 1..SqsMaxWorkers =>
         /\ pc["sqs"] \in {"s_check", "returned"}
         /\ pc["sqs"] = "returned" => result["sqs"] = "invalid_workers"
         /\ nextMsg = 1 /\ batch = <<>>
         /\ \A m \in Msgs : wst[m] = "none" /\ log[m] = <<>>
    /\ worker \in 1..SqsMaxWorkers => result["sqs"] # "invalid_workers"

\* C15 witness: the call with 11 workers has returned the worker-count
\* error.
C15_ElevenRejected ==
  /\ app = "sqs" /\ worker = SqsMaxWorkers + 1
  /\ pc["sqs"] = "returned" /\ result["sqs"] = "invalid_workers"

\* The queue has carried out the deletion of m.
Deleted(m) == \E k \in 1..Len(log[m]) : log[m][k] = Ev("delete", 0, TRUE)

\* C16 (as claimed): SQS: when the worker of a message ends, the message
\* has been deleted from the queue if and only if its handler returned
\* success.
C16_DeletedIffSuccess ==
  app = "sqs" =>
    \A m \in Msgs : Finished(m) => (HandlerOk(m) <=> Deleted(m))

\* C16 (amended): SQS: the deletion of a message is requested
\* (DeleteMessage is called) if and only if its handler returned success,
\* as the worker's next call and once; a message whose handler failed is
\* never deleted, and its error-handlers 1, 2, ... are called in order,
\* each one only after all earlier ones returned success, until one fails
\* or all were called.
C16_DeleteRequestedIffSuccess ==
  app = "sqs" =>
    \A m \in Msgs :
      LET L == log[m] IN
      /\ Count(L, "delete") >= 1 => HandlerOk(m)
      /\ HandlerOk(m) =>
           /\ Count(L, "delete") <= 1
           /\ Len(L) >= 2 => L[2].op = "delete"
           /\ Finished(m) => Count(L, "delete") = 1
      /\ HandlerFailed(m) =>
           /\ ~Deleted(m)
           /\ \A k \in 2..Len(L) :
                /\ L[k].op = "errh" /\ L[k].i = k - 1 /\ L[k].i <= nErr
                /\ k < Len(L) => L[k].ok
           /\ Finished(m) =>
                Len(L) = nErr + 1 \/ (Len(L) >= 2 /\ ~L[Len(L)].ok)

\* C16 witness: the handler of a message succeeded, the deletion was
\* requested and failed, and the worker has ended: the message is still
\* in the queue.
C16_DeleteFailed ==
  /\ app = "sqs"
  /\ \E m \in Msgs : /\ HandlerOk(m) /\ Finished(m)
                     /\ Count(log[m], "delete") = 1 /\ ~Deleted(m)

\* C17 (as claimed): the connect step does not depend on the dial or on
\* the caller's context to come to an end: while its dial has not completed
\* and the context is active, connect itself has a step to take (the
\* expiry of the connection deadline, which makes Connect return the
\* timeout error).
C17_ConnectTimesOut ==
  \A p \in RabbitCallers :
    (pc[p] = "c_select" /\ dial[myDial[p]] = "pending" /\ ~ctxDone) =>
      ENABLED (ConnectSelectCtx(p) \/ ConnectSelectDone(p))

\* The decimal string of n.
DecimalString(n) == FormatInt(n)
\* A text that is no number: it has no digit, or a character that is
\* neither a digit, a sign nor a decimal point.
NotNumeric(t) ==
  \/ \A k \in 1..Len(t) : ~IsDigit(t[k])
  \/ \E k \in 1..Len(t) : ~IsDigit(t[k]) /\ t[k] \notin {"+", "-", "."}

\* C18, the part that holds: Redelivery returns 0 for an absent header and
\* for a value that is no number (nil, a bool, a non-numeric text), n for
\* a value n of an integer type and n for the decimal string of n.
RedeliveryOnIntegersAndTexts ==
  retry # <<>> =>
    /\ hdr.kind \in {"absent", "nil", "bool"} => retry[1] = 0
    /\ (hdr.kind = "string" /\ NotNumeric(hdr.s)) => retry[1] = 0
    /\ hdr.kind = "int" => retry[1] = hdr.n
    /\ \A n \in Counts :
         (hdr.kind = "string" /\ hdr.s = DecimalString(n)) => retry[1] = n

\* C18 (as claimed): Redelivery returns 0 for an absent header and for a
\* value that is not numeric, and n when the value is the number n, of an
\* integer or of a floating-point type, or the decimal string of n.
C18_RedeliveryValues ==
  /\ RedeliveryOnIntegersAndTexts
  /\ (retry # <<>> /\ hdr.kind = "float") => retry[1] = hdr.n

\* Nothing can move in the run of the shared connection.
QuiescentShared == ~ENABLED NextShared

\* C19 (as claimed): when one of the two Close calls on the connection has
\* completed, the other one completes too: it is not left waiting when
\* nothing can move any more; and after both calls the channel and the
\* transport connection of r are closed.
C19_SecondCloseCompletes ==
  \A p \in Closers : \A q \in Closers \ {p} :
    /\ (pc[p] = "w_done" /\ QuiescentShared) => pc[q] # "cl_lock"
    /\ (pc[p] = "w_done" /\ pc[q] = "w_done") =>
         chan[rChan] = "closed" /\ conn[rConn] = "closed"

\* p holds r.mu inside Reconnect, between Lock (129) and its return.
InCritical(p) == InReconnect(p) /\ pc[p] # "rc_lock"
PendingDials == {d \in DialIds : dial[d] = "pending"}

\* C20: on a shared connection at most one goroutine is inside the
\* close-and-redial sequence of Reconnect, and it holds r.mu; a second
\* caller has not gone past the Lock of Reconnect while the first is
\* inside; and at most one dial is in progress.
C20_OneReconnectAtATime ==
  /\ \A p \in RabbitCallers : InCritical(p) => mu = p
  /\ \A p \in RabbitCallers, q \in RabbitCallers :
       (InCritical(p) /\ InCritical(q)) => p = q
  /\ Cardinality(PendingDials) <= 1

\* C20 witness: the consumer loop is inside Reconnect and the publisher,
\* whose first send failed, waits at the Lock of its own Reconnect call.
C20_PublisherWaits ==
  /\ app = "shared"
  /\ InCritical("consumer")
  /\ pc["publisher"] = "rc_lock" /\ ~ENABLED ReconnectLock("publisher")

\* Workers that hold a slot: admitted, the receive <-sem of their deferred
\* function not yet made.
HoldingSlot == {m \in Msgs : wst[m] \notin {"none", "wgdone", "done"}}

\* C21: in both loops, at every moment the number of occupied slots of sem
\* is the number of workers admitted whose deferred function has not yet
\* given the slot back, and the WaitGroup counts the workers admitted and
\* not yet done: each worker, whatever path its body took, gives its slot
\* back once.
C21_SlotsMatchWorkers ==
  /\ sem = Cardinality(HoldingSlot)
  /\ wg = Cardinality(Admitted)

\* C21 witness: of two admitted workers one has given its slot back and
\* the other, whose error-handler returned failure, is about to: one slot
\* is occupied.
C21_OneSlotBack ==
  /\ sem = 1
  /\ \E m \in Msgs : wst[m] \in {"wgdone", "done"}
  /\ \E m \in Msgs : /\ Finished(m) /\ Len(log[m]) >= 2
                     /\ log[m][Len(log[m])] = Ev("errh", 1, FALSE)

\* C22: once the context given to Connect is cancelled, the channel and the
\* transport connection installed in r are closed or some goroutine of the
\* program can still move (at rest, both are closed); and once the
\* watcher's Close has returned, the connection installed in r is closed,
\* whatever Reconnect call was running or was started since.
C22_TornDownAfterCancel ==
  (ctxDone /\ rConn # 0) =>
    /\ (conn[rConn] = "closed" /\ chan[rChan] = "closed") \/ ~ProgramAtRest
    /\ pc["watcher"] = "w_done" => conn[rConn] = "closed"

\* C22 witness: the context was cancelled while the consumer loop was
\* inside Reconnect; the program is at rest with the watcher waiting for
\* r.mu, and the connection installed in r is closed.
C22_CancelledDuringReconnect ==
  /\ ctxDone /\ rConn # 0 /\ ProgramAtRest
  /\ InReconnect("consumer") /\ subsAtCancel >= 1
  /\ pc["watcher"] = "cl_lock"
  /\ conn[rConn] = "closed"

\* The connect call of p still holds the connection opened by dial d.
HeldByConnect(d) ==
  \E p \in RabbitCallers : myDial[p] = d /\ pc[p] \in {"c_select", "c_channel"}

\* C23 (as claimed): every transport connection a dial has opened and that
\* is still open is the one installed in r, or is in the hands of the
\* connect call that started the dial.
C23_NoOrphanConnection ==
  \A d \in DialIds : conn[d] = "open" => (rConn = d \/ HeldByConnect(d))

====
